---- MODULE Spec2Model ----
(***************************************************************************)
(* Cart -> Order checkout and order status state machine of the            *)
(* ecommerce-api services (src/src/services/cart_service.py and            *)
(* src/src/services/order_service.py), over the tables of src/src/models.  *)
(*                                                                         *)
(* Every service call is one action: the requests of these specifications  *)
(* are sequential (one request runs to its commit or to its exception      *)
(* before the next one starts).  Money is counted in integer cents.        *)
(***************************************************************************)
EXTENDS Integers, Sequences, FiniteSets, TLC

\* ------------------------------------------------------------------ bounds
Users == {1, 2}
ProductIds == {1, 2}
Prices == {1, 3}
\* stock levels are 0..MaxStock; a request asks for 1..MaxStock units
MaxStock == 2
\* a behaviour serves at most MaxRequests requests
MaxRequests == 4

\* --------------------------------------------------------------- constants
OrderStatus == {"pending", "paid", "shipped", "delivered", "cancelled"}

None == 0
OK == 200
HTTP_400_BAD_REQUEST == 400
HTTP_403_FORBIDDEN == 403
HTTP_404_NOT_FOUND == 404
HTTP_422_UNPROCESSABLE_ENTITY == 422
HTTP_500_INTERNAL_SERVER_ERROR == 500
\* the largest quantity one cart request can carry
le == 100

VARIABLES
  products,          \* table products: id -> [name, price, stock, is_active]
  carts,             \* table carts: set of rows [id, user_id]
  cart_items,        \* table cart_items: set of rows
  next_cart_item_id, \* autoincrement counter of cart_items.id
  orders,            \* table orders: row i has id i
  order_items,       \* table order_items: row i has id i
  response,          \* outcome of the last request
  requests,          \* number of requests served so far
  sessions           \* the sessions of the requests in flight: what each has
                     \* read and what it has written and not committed

vars == <<products, carts, cart_items, next_cart_item_id, orders, order_items,
          response, requests, sessions>>
db == <<products, carts, cart_items, next_cart_item_id, orders, order_items>>

\* ----------------------------------------------------------------- helpers
Min(S) == CHOOSE x \in S : \A y \in S : x <= y

RECURSIVE SumSeq(_)
SumSeq(s) == IF s = <<>> THEN 0 ELSE Head(s) + SumSeq(Tail(s))

\* the orders in which a query without ORDER BY can return the rows of S
Loaded(S) ==
  {s \in [1..Cardinality(S) -> S] : \A i, j \in DOMAIN s : i # j => s[i] # s[j]}

\* what the caller of a service function observes: the function, the calling
\* user (None for an administrator's request), the HTTP status of the exception
\* it raised (OK when it returned) and the id of the row it returned
Reply(op, user, code, detail, ret) ==
  [op |-> op, user |-> user, code |-> code, detail |-> detail, ret |-> ret]

\* ------------------------------------------------------------------- state
\* the requests that can be in flight together
SessionIds == {1, 2}

\* a session that is not open: its identity map is empty and it has no write
\* pending
Closed ==
  [op |-> "", user |-> None, pc |-> "closed", p |-> None, q |-> None,
   cart |-> None, existing |-> {}, items |-> <<>>, prods |-> <<>>,
   new_orders |-> <<>>, new_order_items |-> <<>>, dirty |-> {},
   order_id |-> None]

NoSessions == [s \in SessionIds |-> Closed]

\* the rows of the five tables
ProductRow == [name : {"A", "B"}, price : Prices, stock : Nat,
               is_active : BOOLEAN]
CartRow == [id : Nat \ {0}, user_id : Users]
CartItemRow == [id : Nat \ {0}, cart_id : Nat \ {0}, product_id : ProductIds,
                quantity : Nat \ {0}, price_at_add : Prices]
OrderRow == [user_id : Users, total_price : Nat, status : OrderStatus]
OrderItemRow == [order_id : Nat \ {0}, product_id : ProductIds,
                 product_name : {"A", "B"}, quantity : Nat \ {0}, price : Prices]

TypeOK ==
  /\ products \in [ProductIds -> ProductRow]
  /\ \A c \in carts : c \in CartRow
  /\ \A i \in cart_items : i \in CartItemRow /\ i.id < next_cart_item_id
  /\ \A k \in DOMAIN orders : orders[k] \in OrderRow
  /\ \A k \in DOMAIN order_items :
       order_items[k] \in OrderItemRow /\ order_items[k].order_id <= Len(orders)
  /\ requests \in 0..MaxRequests

\* the catalog of the start: every product active and fully stocked, product 1
\* at the low price and product 2 at the high one
InitialProduct(p) ==
  [name |-> IF p = 1 THEN "A" ELSE "B",
   price |-> IF p = 1 THEN 1 ELSE 3,
   stock |-> MaxStock,
   is_active |-> TRUE]

Init ==
  /\ products = [p \in ProductIds |-> InitialProduct(p)]
  /\ carts = {}
  /\ cart_items = {}
  /\ next_cart_item_id = 1
  /\ orders = <<>>
  /\ order_items = <<>>
  /\ requests = 0
  /\ response = Reply("init", None, OK, "", None)
  /\ sessions = NoSessions

\* ------------------------------------------------------------ cart service
\* get_or_create_cart inserting a cart row at every call
carts_with_new(u) == carts \cup {[id |-> Cardinality(carts) + 1, user_id |-> u]}

\* CartService.get_or_create_cart: the carts table once the call has returned
carts_with(u) ==
  IF \E c \in carts : c.user_id = u
    THEN carts
    ELSE carts \cup {[id |-> Cardinality(carts) + 1, user_id |-> u]}

\* CartService.get_or_create_cart, as GET /cart calls it
get_or_create_cart(u) ==
  /\ carts' = carts_with(u)
  /\ \E cart \in carts' :
       /\ cart.user_id = u
       /\ response' = Reply("get_or_create_cart", u, OK, "", cart.id)
  /\ UNCHANGED <<products, cart_items, next_cart_item_id, orders, order_items>>

\* add_item, lines 95-99: the query for the product finds a row (the id exists
\* and the product is active)
active_product(p) == p \in DOMAIN products /\ products[p].is_active

\* the stock test taking a request of one unit more than the stock
insufficient_stock_off_by_one(product, quantity) == product.stock + 1 < quantity

\* the stock test of add_item (lines 107 and 126) and of update_item_quantity
\* (line 192)
insufficient_stock(product, quantity) == product.stock < quantity

\* the assignment of a quantity that also takes the price of the catalog
with_quantity_repriced(cart_item, quantity) ==
  [cart_item EXCEPT !.quantity = quantity,
                    !.price_at_add = products[cart_item.product_id].price]

\* the row once add_item (line 132) or update_item_quantity (line 198) has
\* assigned its quantity and committed
with_quantity(cart_item, quantity) == [cart_item EXCEPT !.quantity = quantity]

\* add_to_cart without the lookup of an existing line: it always inserts a row
add_to_cart_always_insert(u, p, q) ==
  \E cart \in carts_with(u) :
    /\ cart.user_id = u
    /\ carts' = carts_with(u)
    /\ cart_items' = cart_items \cup
         {[id |-> next_cart_item_id, cart_id |-> cart.id, product_id |-> p,
           quantity |-> q, price_at_add |-> products[p].price]}
    /\ next_cart_item_id' = next_cart_item_id + 1
    /\ response' = Reply("add_item", u, OK, "", next_cart_item_id)
    /\ UNCHANGED <<products, orders, order_items>>

\* add_item, lines 113-150: the cart of the user is fetched or created, then
\* the line of the product is raised or inserted
add_to_cart(u, p, q) ==
  LET product == products[p] IN
  \E cart \in carts_with(u) :
    /\ cart.user_id = u
    /\ carts' = carts_with(u)
    /\ UNCHANGED <<products, orders, order_items>>
    /\ LET existing ==
             {i \in cart_items : i.cart_id = cart.id /\ i.product_id = p}
       IN
       IF existing # {} THEN
         \E existing_item \in existing :
           LET new_quantity == existing_item.quantity + q IN
           IF insufficient_stock(product, new_quantity) THEN
             /\ response' = Reply("add_item", u, HTTP_400_BAD_REQUEST,
                                  "stock", None)
             /\ UNCHANGED <<cart_items, next_cart_item_id>>
           ELSE
             /\ cart_items' = (cart_items \ {existing_item}) \cup
                  {with_quantity(existing_item, new_quantity)}
             /\ UNCHANGED next_cart_item_id
             /\ response' = Reply("add_item", u, OK, "", existing_item.id)
       ELSE
         /\ cart_items' = cart_items \cup
              {[id |-> next_cart_item_id, cart_id |-> cart.id,
                product_id |-> p, quantity |-> q,
                price_at_add |-> product.price]}
         /\ next_cart_item_id' = next_cart_item_id + 1
         /\ response' = Reply("add_item", u, OK, "", next_cart_item_id)

\* add_item fetching (and creating) the cart before it looks at the product
add_item_cart_first(u, p, q) ==
  IF ~ active_product(p) THEN
    /\ response' = Reply("add_item", u, HTTP_404_NOT_FOUND, "product", None)
    /\ carts' = carts_with(u)
    /\ UNCHANGED <<products, cart_items, next_cart_item_id, orders, order_items>>
  ELSE IF insufficient_stock(products[p], q) THEN
    /\ response' = Reply("add_item", u, HTTP_400_BAD_REQUEST, "stock", None)
    /\ UNCHANGED db
  ELSE add_to_cart(u, p, q)

\* CartService.add_item
add_item(u, p, q) ==
  IF ~ active_product(p) THEN
    /\ response' = Reply("add_item", u, HTTP_404_NOT_FOUND, "product", None)
    /\ UNCHANGED db
  ELSE IF insufficient_stock(products[p], q) THEN
    /\ response' = Reply("add_item", u, HTTP_400_BAD_REQUEST, "stock", None)
    /\ UNCHANGED db
  ELSE add_to_cart(u, p, q)

\* the joined query without the filter on the user of the cart
items_by_id(u, item_id) == {i \in cart_items : i.id = item_id}

\* the rows of cart_items with this id in a cart of this user (the joined query
\* of update_item_quantity and remove_item)
owned_items(u, item_id) ==
  {i \in cart_items :
     i.id = item_id /\ \E c \in carts : c.id = i.cart_id /\ c.user_id = u}

\* CartService.update_item_quantity
update_item_quantity(u, item_id, q) ==
  IF owned_items(u, item_id) = {} THEN
    /\ response' = Reply("update_item_quantity", u, HTTP_404_NOT_FOUND, "item",
                         None)
    /\ UNCHANGED db
  ELSE
    \E cart_item \in owned_items(u, item_id) :
      LET product == products[cart_item.product_id] IN
      IF insufficient_stock(product, q) THEN
        /\ response' = Reply("update_item_quantity", u, HTTP_400_BAD_REQUEST,
                             "stock", None)
        /\ UNCHANGED db
      ELSE
        /\ cart_items' = (cart_items \ {cart_item}) \cup
             {with_quantity(cart_item, q)}
        /\ response' = Reply("update_item_quantity", u, OK, "", item_id)
        /\ UNCHANGED <<products, carts, next_cart_item_id, orders, order_items>>

\* CartService.remove_item
remove_item(u, item_id) ==
  IF owned_items(u, item_id) = {} THEN
    /\ response' = Reply("remove_item", u, HTTP_404_NOT_FOUND, "item", None)
    /\ UNCHANGED db
  ELSE
    \E cart_item \in owned_items(u, item_id) :
      /\ cart_items' = cart_items \ {cart_item}
      /\ response' = Reply("remove_item", u, OK, "", None)
      /\ UNCHANGED <<products, carts, next_cart_item_id, orders, order_items>>

\* clear_cart leaving the items where they are
cart_items_kept(u) == cart_items

\* clear_cart deleting the items of every cart
cart_items_emptied(u) == {}

\* CartService.clear_cart: the cart_items table once the call has returned
cart_items_cleared(u) ==
  IF \E c \in carts : c.user_id = u
    THEN LET cart == CHOOSE c \in carts : c.user_id = u
         IN {i \in cart_items : i.cart_id # cart.id}
    ELSE cart_items

\* CartService.clear_cart, as DELETE /cart calls it
clear_cart(u) ==
  /\ cart_items' = cart_items_cleared(u)
  /\ response' = Reply("clear_cart", u, OK, "", None)
  /\ UNCHANGED <<products, carts, next_cart_item_id, orders, order_items>>

\* the value of get_cart_with_details for a user without a cart row
NoCart == [id |-> None, items |-> <<>>]

\* CartService.get_cart_with_details: the cart of the user with its items
\* loaded in one of the orders the query can return them, NoCart without a row
get_cart_with_details(u) ==
  IF \E c \in carts : c.user_id = u
    THEN LET cart == CHOOSE c \in carts : c.user_id = u
             lines == {i \in cart_items : i.cart_id = cart.id}
         IN {[id |-> cart.id, items |-> items] : items \in Loaded(lines)}
    ELSE {NoCart}

\* calculate_totals multiplying by the price of the catalog
calculate_totals_catalog_price(cart) ==
  IF cart.id = None \/ cart.items = <<>> THEN <<0, 0>>
  ELSE <<SumSeq([k \in DOMAIN cart.items |-> cart.items[k].quantity]),
         SumSeq([k \in DOMAIN cart.items |->
                   products[cart.items[k].product_id].price
                     * cart.items[k].quantity])>>

\* CartService.calculate_totals: (total_items, total_price)
calculate_totals(cart) ==
  IF cart.id = None \/ cart.items = <<>> THEN <<0, 0>>
  ELSE <<SumSeq([k \in DOMAIN cart.items |-> cart.items[k].quantity]),
         SumSeq([k \in DOMAIN cart.items |->
                   cart.items[k].price_at_add * cart.items[k].quantity])>>

\* calculate_totals applied to get_cart_with_details, as GET /cart/summary and
\* the tests of the service call it
cart_totals(u) ==
  /\ \E cart \in get_cart_with_details(u) :
       response' = Reply("calculate_totals", u, OK, "", calculate_totals(cart))
  /\ UNCHANGED db

\* CartItemBase.quantity and CartItemUpdate.quantity: Field(gt=0, le=100)
quantity_valid(q) == q > 0 /\ q <= le

\* POST /cart/items (add_item_to_cart): the body is validated, then the service
\* is called
add_item_to_cart(u, p, q) ==
  IF ~ quantity_valid(q) THEN
    /\ response' = Reply("add_item", u, HTTP_422_UNPROCESSABLE_ENTITY,
                         "quantity", None)
    /\ UNCHANGED db
  ELSE add_item(u, p, q)

\* PATCH /cart/items/{item_id} (update_cart_item)
update_cart_item(u, item_id, q) ==
  IF ~ quantity_valid(q) THEN
    /\ response' = Reply("update_item_quantity", u,
                         HTTP_422_UNPROCESSABLE_ENTITY, "quantity", None)
    /\ UNCHANGED db
  ELSE update_item_quantity(u, item_id, q)

\* ----------------------------------------------------------- order service
\* line_error without the is_active test
line_error_stock_only(cart_item) ==
  IF products[cart_item.product_id].stock < cart_item.quantity THEN "stock"
  ELSE ""

\* create_order, lines 76-93: the re-validation of one cart line; "" when the
\* line passes
line_error(cart_item) ==
  LET product == products[cart_item.product_id] IN
  IF ~ product.is_active THEN "unavailable"
  ELSE IF product.stock < cart_item.quantity THEN "stock"
  ELSE ""

\* the total taken from the prices of the catalog at checkout time
total_price_of_catalog(items) ==
  SumSeq([k \in DOMAIN items |->
            products[items[k].product_id].price * items[k].quantity])

\* create_order, lines 95-97
total_price_of(items) ==
  SumSeq([k \in DOMAIN items |-> items[k].price_at_add * items[k].quantity])

\* create_order, lines 106-118: the loop variable is cart_items, the body reads
\* cart_item, which the validation loop left bound to the last line it visited
new_order_items(order_id, items) ==
  LET cart_item == items[Len(items)] IN
  [k \in DOMAIN items |->
     [order_id |-> order_id,
      product_id |-> cart_item.product_id,
      product_name |-> products[cart_item.product_id].name,
      quantity |-> cart_item.quantity,
      price |-> cart_item.price_at_add]]

\* decrement_stock taking one unit per line instead of the line quantity
RECURSIVE decrement_stock_by_one(_, _, _)
decrement_stock_by_one(prods, items, k) ==
  IF k > Len(items) THEN [products |-> prods, negative |-> FALSE]
  ELSE decrement_stock_by_one(
         [prods EXCEPT ![items[k].product_id].stock = @ - 1], items, k + 1)

\* create_order, lines 120-129: the decrement loop from line k on; negative is
\* TRUE when some decrement left a stock below zero (the loop stops there)
RECURSIVE decrement_stock(_, _, _)
decrement_stock(prods, items, k) ==
  IF k > Len(items) THEN [products |-> prods, negative |-> FALSE]
  ELSE LET p == items[k].product_id
           stock == prods[p].stock - items[k].quantity
       IN IF stock < 0
            THEN [products |-> prods, negative |-> TRUE]
            ELSE decrement_stock([prods EXCEPT ![p].stock = stock], items, k + 1)

\* create_order, lines 135-140: the ids the final query (the orders of the
\* user, no ORDER BY, first row) can return
returned_orders(all_orders, u) ==
  {id \in DOMAIN all_orders : all_orders[id].user_id = u}

\* create_order with each line validated inside the decrement loop: the lines
\* before the first failing one have lost their stock when the call fails
create_order_validate_late(u) ==
  LET lines == {i \in cart_items :
                  \E c \in carts : c.user_id = u /\ i.cart_id = c.id}
  IN
  IF lines = {} THEN
    /\ response' = Reply("create_order", u, HTTP_400_BAD_REQUEST, "cart_empty",
                         None)
    /\ UNCHANGED db
  ELSE
    \E items \in Loaded(lines) :
      LET failing == {k \in DOMAIN items : line_error(items[k]) # ""} IN
      IF failing # {} THEN
        /\ response' = Reply("create_order", u, HTTP_400_BAD_REQUEST,
                             line_error(items[Min(failing)]), None)
        /\ products' =
             decrement_stock(products, SubSeq(items, 1, Min(failing) - 1), 1).products
        /\ UNCHANGED <<carts, cart_items, next_cart_item_id, orders, order_items>>
      ELSE
        /\ orders' = Append(orders, [user_id |-> u,
                                     total_price |-> total_price_of(items),
                                     status |-> "pending"])
        /\ order_items' = order_items \o new_order_items(Len(orders) + 1, items)
        /\ products' = decrement_stock(products, items, 1).products
        /\ cart_items' = cart_items_cleared(u)
        /\ \E ret \in returned_orders(orders', u) :
             response' = Reply("create_order", u, OK, "", ret)
        /\ UNCHANGED <<carts, next_cart_item_id>>

\* OrderService.create_order
create_order(u) ==
  LET user_carts == {c \in carts : c.user_id = u}
      lines == {i \in cart_items : \E c \in user_carts : i.cart_id = c.id}
  IN
  IF user_carts = {} \/ lines = {} THEN
    /\ response' = Reply("create_order", u, HTTP_400_BAD_REQUEST, "cart_empty",
                         None)
    /\ UNCHANGED db
  ELSE
    \E items \in Loaded(lines) :
      LET failing == {k \in DOMAIN items : line_error(items[k]) # ""} IN
      IF failing # {} THEN
        /\ response' = Reply("create_order", u, HTTP_400_BAD_REQUEST,
                             line_error(items[Min(failing)]), None)
        /\ UNCHANGED db
      ELSE
        LET order_id == Len(orders) + 1
            order == [user_id |-> u, total_price |-> total_price_of(items),
                      status |-> "pending"]
            stock == decrement_stock(products, items, 1)
        IN
        IF stock.negative THEN
          /\ response' = Reply("create_order", u,
                               HTTP_500_INTERNAL_SERVER_ERROR, "stock", None)
          /\ UNCHANGED db
        ELSE
          /\ orders' = Append(orders, order)
          /\ order_items' = order_items \o new_order_items(order_id, items)
          /\ products' = stock.products
          /\ cart_items' = cart_items_cleared(u)
          /\ \E ret \in returned_orders(orders', u) :
               response' = Reply("create_order", u, OK, "", ret)
          /\ UNCHANGED <<carts, next_cart_item_id>>

\* ------------------------------------------- create_order, session by session
\* Each request runs in a session of its own (get_db) on an engine created
\* without isolation_level: a query reads what is committed when it runs, a
\* flushed write is visible to the other sessions once its session commits.
\* The steps below are the points of create_order where the session reads the
\* store or commits.

\* Session.commit: the pending writes of the session reach the tables; a new
\* order takes the next id, and an UPDATE of a product writes the stock the
\* identity map of the session holds
commit(sess) ==
  LET order_id == IF sess.order_id # None THEN sess.order_id
                  ELSE Len(orders) + 1
  IN /\ orders' = orders \o sess.new_orders
     /\ order_items' = order_items \o
          [k \in DOMAIN sess.new_order_items |->
             [sess.new_order_items[k] EXCEPT !.order_id = order_id]]
     /\ products' = [p \in ProductIds |->
                       IF p \in sess.dirty
                         THEN [products[p] EXCEPT !.stock = sess.prods[p].stock]
                         ELSE products[p]]

\* the session once commit has sent its pending writes
flushed(sess) ==
  [sess EXCEPT !.new_orders = <<>>, !.new_order_items = <<>>, !.dirty = {},
               !.order_id = IF sess.new_orders # <<>> THEN Len(orders) + 1 ELSE @]

\* create_order, lines 63-74: the cart of the user is read with its items and
\* their products; without a cart or without items the request ends in 400
co_load(s) ==
  LET sess == sessions[s]
      u == sess.user
      user_carts == {c \in carts : c.user_id = u}
      lines == {i \in cart_items : \E c \in user_carts : i.cart_id = c.id}
  IN
  /\ sess.op = "create_order"
  /\ sess.pc = "start"
  /\ requests < MaxRequests
  /\ requests' = requests + 1
  /\ UNCHANGED db
  /\ IF user_carts = {} \/ lines = {} THEN
       /\ response' = Reply("create_order", u, HTTP_400_BAD_REQUEST,
                            "cart_empty", None)
       /\ sessions' = [sessions EXCEPT ![s] = Closed]
     ELSE
       /\ \E items \in Loaded(lines) :
            sessions' = [sessions EXCEPT ![s] =
                           [@ EXCEPT !.pc = "loaded", !.items = items,
                                     !.prods = products]]
       /\ UNCHANGED response

\* create_order, lines 76-93, on the products the session has read
session_line_error(prods, cart_item) ==
  LET product == prods[cart_item.product_id] IN
  IF ~ product.is_active THEN "unavailable"
  ELSE IF product.stock < cart_item.quantity THEN "stock"
  ELSE ""

\* create_order, lines 76-104: the lines are validated against the products
\* read at line 63, then the order is added and flushed
co_validate(s) ==
  LET sess == sessions[s]
      items == sess.items
      failing == {k \in DOMAIN items :
                    session_line_error(sess.prods, items[k]) # ""}
  IN
  /\ sess.op = "create_order"
  /\ sess.pc = "loaded"
  /\ UNCHANGED <<db, requests>>
  /\ IF failing # {} THEN
       /\ response' = Reply("create_order", sess.user, HTTP_400_BAD_REQUEST,
                            session_line_error(sess.prods, items[Min(failing)]),
                            None)
       /\ sessions' = [sessions EXCEPT ![s] = Closed]
     ELSE
       /\ sessions' = [sessions EXCEPT ![s] =
            [@ EXCEPT !.pc = "flushed",
                      !.new_orders = <<[user_id |-> sess.user,
                                        total_price |-> total_price_of(items),
                                        status |-> "pending"]>>]]
       /\ UNCHANGED response

\* create_order, lines 106-118, on the products the session has read
session_order_items(prods, items) ==
  LET cart_item == items[Len(items)] IN
  [k \in DOMAIN items |->
     [order_id |-> None,
      product_id |-> cart_item.product_id,
      product_name |-> prods[cart_item.product_id].name,
      quantity |-> cart_item.quantity,
      price |-> cart_item.price_at_add]]

\* co_order_items with a commit after db.add_all(order_items): the order and
\* its items are committed before the stock is decremented
co_order_items_committed(s) ==
  LET sess == sessions[s]
      stock == decrement_stock(sess.prods, sess.items, 1)
      with_items ==
        [sess EXCEPT !.new_order_items =
                       session_order_items(sess.prods, sess.items)]
  IN
  /\ sess.op = "create_order"
  /\ sess.pc = "flushed"
  /\ UNCHANGED <<requests, response, carts, cart_items, next_cart_item_id>>
  /\ ~ stock.negative
  /\ commit(with_items)
  /\ sessions' = [sessions EXCEPT ![s] =
       [flushed(with_items) EXCEPT
          !.pc = "decremented",
          !.prods = stock.products,
          !.dirty = {sess.items[k].product_id : k \in DOMAIN sess.items}]]

\* create_order, lines 106-129: the order items are added and the stock of the
\* products in the identity map is decremented; a negative stock rolls the
\* session back and ends the request in 500
co_order_items(s) ==
  LET sess == sessions[s]
      stock == decrement_stock(sess.prods, sess.items, 1)
  IN
  /\ sess.op = "create_order"
  /\ sess.pc = "flushed"
  /\ UNCHANGED <<db, requests>>
  /\ IF stock.negative THEN
       /\ response' = Reply("create_order", sess.user,
                            HTTP_500_INTERNAL_SERVER_ERROR, "stock", None)
       /\ sessions' = [sessions EXCEPT ![s] = Closed]
     ELSE
       /\ sessions' = [sessions EXCEPT ![s] =
            [@ EXCEPT !.pc = "decremented",
                      !.new_order_items =
                         session_order_items(sess.prods, sess.items),
                      !.prods = stock.products,
                      !.dirty = {sess.items[k].product_id :
                                   k \in DOMAIN sess.items}]]
       /\ UNCHANGED response

\* create_order, line 131: CartService.clear_cart deletes the items of the cart
\* and commits (cart_service.py, line 252), which sends every pending write of
\* the session
co_clear_cart(s) ==
  LET sess == sessions[s] IN
  /\ sess.op = "create_order"
  /\ sess.pc = "decremented"
  /\ UNCHANGED <<requests, response, carts, next_cart_item_id>>
  /\ IF \E c \in carts : c.user_id = sess.user THEN
       /\ cart_items' = cart_items_cleared(sess.user)
       /\ commit(sess)
       /\ sessions' = [sessions EXCEPT ![s] =
                        [flushed(sess) EXCEPT !.pc = "cleared"]]
     ELSE
       /\ UNCHANGED <<cart_items, orders, order_items, products>>
       /\ sessions' = [sessions EXCEPT ![s].pc = "cleared"]

\* create_order, lines 133-142: commit, then the order of the user is queried
\* again and returned
co_return(s) ==
  LET sess == sessions[s] IN
  /\ sess.op = "create_order"
  /\ sess.pc = "cleared"
  /\ UNCHANGED <<requests, carts, cart_items, next_cart_item_id>>
  /\ commit(sess)
  /\ \E ret \in returned_orders(orders', sess.user) :
       response' = Reply("create_order", sess.user, OK, "", ret)
  /\ sessions' = [sessions EXCEPT ![s] = Closed]

\* ------------------------------------------------ the cart, session by session
\* The steps of get_or_create_cart and add_item at which the session reads the
\* store or commits, so that two requests of one user can interleave.

\* a row for the user without the test of uniqueness
carts_user_id_any(u) == u \in Users

\* the unique constraint on carts.user_id: the INSERT of a row for the user
\* is accepted when no committed row has this user_id
carts_user_id_unique(u) == ~ \E c \in carts : c.user_id = u

\* GET /cart reaches get_or_create_cart: the request opens its session
gc_call(s, u) ==
  /\ sessions[s].pc = "closed"
  /\ requests < MaxRequests
  /\ requests' = requests + 1
  /\ sessions' = [sessions EXCEPT ![s] =
       [Closed EXCEPT !.op = "get_or_create_cart", !.user = u, !.pc = "called"]]
  /\ UNCHANGED <<db, response>>

\* add_item, lines 95-111: the request opens its session, queries the product
\* and tests the stock, then calls get_or_create_cart (line 113)
ai_product(s, u, p, q) ==
  /\ sessions[s].pc = "closed"
  /\ requests < MaxRequests
  /\ requests' = requests + 1
  /\ UNCHANGED db
  /\ IF ~ active_product(p) THEN
       /\ response' = Reply("add_item", u, HTTP_404_NOT_FOUND, "product", None)
       /\ UNCHANGED sessions
     ELSE IF insufficient_stock(products[p], q) THEN
       /\ response' = Reply("add_item", u, HTTP_400_BAD_REQUEST, "stock", None)
       /\ UNCHANGED sessions
     ELSE
       /\ sessions' = [sessions EXCEPT ![s] =
            [Closed EXCEPT !.op = "add_item", !.user = u, !.p = p, !.q = q,
                           !.prods = products, !.pc = "called"]]
       /\ UNCHANGED response

\* get_or_create_cart, lines 53-56: the query for the cart of the user; a cart
\* found is returned
gc_query(s) ==
  LET sess == sessions[s]
      found == {c \in carts : c.user_id = sess.user}
  IN
  /\ sess.pc = "called"
  /\ UNCHANGED <<db, requests>>
  /\ IF found = {} THEN
       /\ sessions' = [sessions EXCEPT ![s].pc = "no_cart"]
       /\ UNCHANGED response
     ELSE
       \E cart \in found :
         IF sess.op = "get_or_create_cart" THEN
           /\ response' = Reply("get_or_create_cart", sess.user, OK, "", cart.id)
           /\ sessions' = [sessions EXCEPT ![s] = Closed]
         ELSE
           /\ sessions' = [sessions EXCEPT ![s].cart = cart.id,
                                           ![s].pc = "have_cart"]
           /\ UNCHANGED response

\* get_or_create_cart, lines 58-63: the cart is inserted and committed; the
\* commit expires the objects the session has loaded. An INSERT the unique
\* constraint refuses raises IntegrityError, which no handler catches: the
\* request ends in 500
gc_insert(s) ==
  LET sess == sessions[s]
      cart == [id |-> Cardinality(carts) + 1, user_id |-> sess.user]
  IN
  /\ sess.pc = "no_cart"
  /\ UNCHANGED <<products, cart_items, next_cart_item_id, orders, order_items,
                 requests>>
  /\ IF carts_user_id_unique(sess.user) THEN
       /\ carts' = carts \cup {cart}
       /\ IF sess.op = "get_or_create_cart" THEN
            /\ response' = Reply("get_or_create_cart", sess.user, OK, "", cart.id)
            /\ sessions' = [sessions EXCEPT ![s] = Closed]
          ELSE
            /\ sessions' = [sessions EXCEPT ![s].cart = cart.id,
                                            ![s].prods = <<>>,
                                            ![s].pc = "have_cart"]
            /\ UNCHANGED response
     ELSE
       /\ response' = Reply(sess.op, sess.user, HTTP_500_INTERNAL_SERVER_ERROR,
                            "integrity", None)
       /\ sessions' = [sessions EXCEPT ![s] = Closed]
       /\ UNCHANGED carts

\* add_item, lines 115-121: the query for a line of the product in the cart
ai_existing(s) ==
  LET sess == sessions[s] IN
  /\ sess.pc = "have_cart"
  /\ sessions' = [sessions EXCEPT
       ![s].existing = {i \in cart_items : /\ i.cart_id = sess.cart
                                           /\ i.product_id = sess.p},
       ![s].pc = "looked"]
  /\ UNCHANGED <<db, requests, response>>

\* add_item, lines 123-150: the line found is raised by the quantity asked, or
\* a line is inserted; then the session commits. The product is the one the
\* session loaded, read again if a commit has expired it. An UPDATE whose row
\* is gone raises StaleDataError: the request ends in 500
ai_write(s) ==
  LET sess == sessions[s]
      product == IF sess.prods = <<>> THEN products[sess.p]
                 ELSE sess.prods[sess.p]
  IN
  /\ sess.pc = "looked"
  /\ sessions' = [sessions EXCEPT ![s] = Closed]
  /\ UNCHANGED <<products, carts, orders, order_items, requests>>
  /\ IF sess.existing # {} THEN
       \E existing_item \in sess.existing :
         LET new_quantity == existing_item.quantity + sess.q
             rows == {i \in cart_items : i.id = existing_item.id}
         IN
         IF insufficient_stock(product, new_quantity) THEN
           /\ response' = Reply("add_item", sess.user, HTTP_400_BAD_REQUEST,
                                "stock", None)
           /\ UNCHANGED <<cart_items, next_cart_item_id>>
         ELSE IF rows = {} THEN
           /\ response' = Reply("add_item", sess.user,
                                HTTP_500_INTERNAL_SERVER_ERROR, "stale", None)
           /\ UNCHANGED <<cart_items, next_cart_item_id>>
         ELSE
           /\ cart_items' = (cart_items \ rows) \cup
                {with_quantity(i, new_quantity) : i \in rows}
           /\ UNCHANGED next_cart_item_id
           /\ response' = Reply("add_item", sess.user, OK, "", existing_item.id)
     ELSE
       /\ cart_items' = cart_items \cup
            {[id |-> next_cart_item_id, cart_id |-> sess.cart,
              product_id |-> sess.p, quantity |-> sess.q,
              price_at_add |-> product.price]}
       /\ next_cart_item_id' = next_cart_item_id + 1
       /\ response' = Reply("add_item", sess.user, OK, "", next_cart_item_id)

\* the validator with CANCELLED also allowed from SHIPPED
validade_cancel_shipped(current_status, new_status) ==
  \/ <<current_status, new_status>> \in
       {<<"pending", "paid">>, <<"pending", "cancelled">>, <<"paid", "shipped">>,
        <<"paid", "cancelled">>, <<"shipped", "delivered">>}
  \/ <<current_status, new_status>> = <<"shipped", "cancelled">>

\* the validator accepting a request for the status the order already has
validade_accept_same(current_status, new_status) ==
  \/ current_status = new_status
  \/ <<current_status, new_status>> \in
       {<<"pending", "paid">>, <<"pending", "cancelled">>, <<"paid", "shipped">>,
        <<"paid", "cancelled">>, <<"shipped", "delivered">>}

\* the validator also letting a PAID order go back to PENDING
validade_back_to_pending(current_status, new_status) ==
  \/ <<current_status, new_status>> \in
       {<<"pending", "paid">>, <<"pending", "cancelled">>, <<"paid", "shipped">>,
        <<"paid", "cancelled">>, <<"shipped", "delivered">>}
  \/ <<current_status, new_status>> = <<"paid", "pending">>

\* OrderService._validade_status_transition
_validade_status_transition(current_status, new_status) ==
  IF current_status \in {"delivered", "cancelled"} THEN FALSE
  ELSE LET valid_transitions ==
             [s \in {"pending", "paid", "shipped"} |->
                CASE s = "pending" -> {"paid", "cancelled"}
                  [] s = "paid" -> {"shipped", "cancelled"}
                  [] s = "shipped" -> {"delivered"}]
           allowed_statuses ==
             IF current_status \in DOMAIN valid_transitions
               THEN valid_transitions[current_status] ELSE {}
       IN new_status \in allowed_statuses

\* update_order_status assigning and committing the status before it validates
update_order_status_write_first(order_id, new_status) ==
  IF order_id \notin DOMAIN orders THEN
    /\ response' = Reply("update_order_status", None, HTTP_404_NOT_FOUND,
                         "order", None)
    /\ UNCHANGED db
  ELSE
    /\ orders' = [orders EXCEPT ![order_id].status = new_status]
    /\ response' =
         IF _validade_status_transition(orders[order_id].status, new_status)
           THEN Reply("update_order_status", None, OK, "", order_id)
           ELSE Reply("update_order_status", None, HTTP_400_BAD_REQUEST,
                      "transition", None)
    /\ UNCHANGED <<products, carts, cart_items, next_cart_item_id, order_items>>

\* update_order_status giving the units of a cancelled order back to the stock
update_order_status_restock(order_id, new_status) ==
  IF order_id \notin DOMAIN orders THEN
    /\ response' = Reply("update_order_status", None, HTTP_404_NOT_FOUND,
                         "order", None)
    /\ UNCHANGED db
  ELSE IF ~ _validade_status_transition(orders[order_id].status, new_status) THEN
    /\ response' = Reply("update_order_status", None, HTTP_400_BAD_REQUEST,
                         "transition", None)
    /\ UNCHANGED db
  ELSE
    /\ orders' = [orders EXCEPT ![order_id].status = new_status]
    /\ products' =
         [p \in ProductIds |->
            IF new_status = "cancelled"
                 /\ \E k \in DOMAIN order_items :
                      /\ order_items[k].order_id = order_id
                      /\ order_items[k].product_id = p
              THEN [products[p] EXCEPT !.stock = @ + 1]
              ELSE products[p]]
    /\ response' = Reply("update_order_status", None, OK, "", order_id)
    /\ UNCHANGED <<carts, cart_items, next_cart_item_id, order_items>>

\* OrderService.update_order_status
update_order_status(order_id, new_status) ==
  IF order_id \notin DOMAIN orders THEN
    /\ response' = Reply("update_order_status", None, HTTP_404_NOT_FOUND,
                         "order", None)
    /\ UNCHANGED db
  ELSE IF ~ _validade_status_transition(orders[order_id].status, new_status) THEN
    /\ response' = Reply("update_order_status", None, HTTP_400_BAD_REQUEST,
                         "transition", None)
    /\ UNCHANGED db
  ELSE
    /\ orders' = [orders EXCEPT ![order_id].status = new_status]
    /\ response' = Reply("update_order_status", None, OK, "", order_id)
    /\ UNCHANGED <<products, carts, cart_items, next_cart_item_id, order_items>>

\* the query of get_order_by_id without the filter on the user
orders_by_id(order_id, u) == {id \in DOMAIN orders : id = order_id}

\* get_order_by_id, lines 190-195: the rows the query selects
orders_of_user_by_id(order_id, u) ==
  {id \in DOMAIN orders : orders[id].user_id = u /\ id = order_id}

\* OrderService.get_order_by_id: the id of the order, None when no row matches
get_order_by_id(order_id, u) ==
  /\ \/ /\ orders_of_user_by_id(order_id, u) = {}
        /\ response' = Reply("get_order_by_id", u, OK, "", None)
     \/ \E id \in orders_of_user_by_id(order_id, u) :
          response' = Reply("get_order_by_id", u, OK, "", id)
  /\ UNCHANGED db

\* the ids of S, the newest first (orders.created_at grows with orders.id)
RECURSIVE Descending(_)
Descending(S) ==
  IF S = {} THEN <<>>
  ELSE LET newest == CHOOSE x \in S : \A y \in S : y <= x
       IN <<newest>> \o Descending(S \ {newest})

\* get_user_orders, lines 163-170: the page of the orders of the user
page_of_orders(u, limit, offset) ==
  LET rows == Descending({id \in DOMAIN orders : orders[id].user_id = u})
  IN SubSeq(rows, offset + 1, Min({offset + limit, Len(rows)}))

\* OrderService.get_user_orders: the ids of the page
get_user_orders(u, limit, offset) ==
  /\ response' = Reply("get_user_orders", u, OK, "",
                       page_of_orders(u, limit, offset))
  /\ UNCHANGED db

\* the accounts: the customers and one administrator (users.is_superuser)
Admins == {3}
Accounts == Users \cup Admins
is_superuser(account) == account \in Admins

\* PATCH /orders/{order_id}/patch (the route update_order_status): its
\* dependency is get_current_user, so every authenticated account reaches the
\* service call
update_order_status_route(current_user, order_id, new_status) ==
  /\ current_user \in Accounts
  /\ update_order_status(order_id, new_status)

\* ----------------------------------------------------------------- catalog
\* update_product writing the new name and price into the order items of the
\* product as well
update_product_cascading(p, field, value) ==
  /\ products' = [products EXCEPT ![p] =
                    CASE field = "price" -> [@ EXCEPT !.price = value]
                      [] field = "stock" -> [@ EXCEPT !.stock = value]
                      [] field = "name" -> [@ EXCEPT !.name = value]]
  /\ products' # products
  /\ response' = Reply("update_product", None, OK, "", p)
  /\ order_items' = [k \in DOMAIN order_items |->
       IF order_items[k].product_id = p
         THEN [order_items[k] EXCEPT !.product_name = products'[p].name,
                                     !.price = products'[p].price]
         ELSE order_items[k]]
  /\ UNCHANGED <<carts, cart_items, next_cart_item_id, orders>>

\* PATCH /products/{id} (update_product): one field of the product is set
update_product(p, field, value) ==
  /\ products' = [products EXCEPT ![p] =
                    CASE field = "price" -> [@ EXCEPT !.price = value]
                      [] field = "stock" -> [@ EXCEPT !.stock = value]
                      [] field = "name" -> [@ EXCEPT !.name = value]]
  /\ products' # products
  /\ response' = Reply("update_product", None, OK, "", p)
  /\ UNCHANGED <<carts, cart_items, next_cart_item_id, orders, order_items>>

\* DELETE /products/{id} (delete_product): soft delete
delete_product(p) ==
  /\ products[p].is_active
  /\ products' = [products EXCEPT ![p].is_active = FALSE]
  /\ response' = Reply("delete_product", None, OK, "", p)
  /\ UNCHANGED <<carts, cart_items, next_cart_item_id, orders, order_items>>

\* ----------------------------------------------------------- specification
\* one more request is served, from the opening of its session to its close:
\* the sessions in flight are as before
Served ==
  /\ requests < MaxRequests
  /\ requests' = requests + 1
  /\ UNCHANGED sessions

\* the ids a request can name: those handed out so far and one that is not
CartItemIds == 1..next_cart_item_id
OrderIds == 1..(Len(orders) + 1)

Next ==
  \/ \E u \in Users : Served /\ get_or_create_cart(u)
  \/ \E u \in Users, p \in ProductIds, q \in 1..MaxStock :
       Served /\ add_item(u, p, q)
  \/ \E u \in Users, i \in CartItemIds, q \in 1..MaxStock :
       Served /\ update_item_quantity(u, i, q)
  \/ \E u \in Users, i \in CartItemIds : Served /\ remove_item(u, i)
  \/ \E u \in Users : Served /\ clear_cart(u)
  \/ \E u \in Users : Served /\ create_order(u)
  \/ \E id \in OrderIds, new_status \in OrderStatus :
       Served /\ update_order_status(id, new_status)
  \/ \E p \in ProductIds, value \in Prices :
       Served /\ update_product(p, "price", value)
  \/ \E p \in ProductIds, value \in 0..MaxStock :
       Served /\ update_product(p, "stock", value)
  \/ \E p \in ProductIds : Served /\ delete_product(p)

Spec == Init /\ [][Next]_vars

\* the orders table of the start of SpecStatus: user 1 and user 2 have each
\* bought one unit of product 1, and the two orders are in any status
InitStatus ==
  /\ \E st \in [1..2 -> OrderStatus] :
       orders = [i \in 1..2 |->
                   [user_id |-> i, total_price |-> InitialProduct(1).price,
                    status |-> st[i]]]
  /\ order_items = [i \in 1..2 |->
                      [order_id |-> i, product_id |-> 1,
                       product_name |-> InitialProduct(1).name,
                       quantity |-> 1, price |-> InitialProduct(1).price]]
  /\ products = [p \in ProductIds |->
                   IF p = 1 THEN [InitialProduct(p) EXCEPT !.stock = MaxStock - 2]
                   ELSE InitialProduct(p)]
  /\ carts = {[id |-> u, user_id |-> u] : u \in {1, 2}}
  /\ cart_items = {}
  /\ next_cart_item_id = 3
  /\ requests = 0
  /\ response = Reply("init", None, OK, "", None)
  /\ sessions = NoSessions

NextStatus ==
  \E id \in OrderIds, new_status \in OrderStatus :
    Served /\ update_order_status(id, new_status)

\* the status machine alone, from orders in every status
SpecStatus == InitStatus /\ [][NextStatus]_vars

\* the product ids a request can name: those of the catalog and one that is not
RequestedProductIds == 1..(Cardinality(ProductIds) + 1)

NextCart ==
  \/ \E u \in Users, p \in RequestedProductIds, q \in 1..MaxStock :
       Served /\ add_item(u, p, q)
  \/ \E u \in Users, i \in CartItemIds, q \in 1..MaxStock :
       Served /\ update_item_quantity(u, i, q)
  \/ \E p \in ProductIds, value \in Prices :
       Served /\ update_product(p, "price", value)
  \/ \E p \in ProductIds, value \in 0..MaxStock :
       Served /\ update_product(p, "stock", value)
  \/ \E p \in ProductIds : Served /\ delete_product(p)

\* the cart lines against a catalog that changes, with requests for a product
\* that is not in the catalog
SpecCart == Init /\ [][NextCart]_vars

NextOwnership ==
  \/ \E u \in Users : Served /\ get_or_create_cart(u)
  \/ \E u \in Users, p \in ProductIds, q \in 1..MaxStock :
       Served /\ add_item(u, p, q)
  \/ \E u \in Users, i \in CartItemIds, q \in 1..MaxStock :
       Served /\ update_item_quantity(u, i, q)
  \/ \E u \in Users, i \in CartItemIds : Served /\ remove_item(u, i)
  \/ \E u \in Users : Served /\ clear_cart(u)
  \/ \E u \in Users : Served /\ cart_totals(u)
  \/ \E p \in ProductIds, value \in Prices :
       Served /\ update_product(p, "price", value)

\* the carts of the users, their lines and their totals, over a catalog whose
\* prices change
SpecOwnership == Init /\ [][NextOwnership]_vars

NextStock ==
  \/ \E u \in Users, p \in ProductIds, q \in 1..MaxStock :
       Served /\ add_item(u, p, q)
  \/ \E u \in Users, i \in CartItemIds, q \in 1..MaxStock :
       Served /\ update_item_quantity(u, i, q)
  \/ \E p \in ProductIds, value \in 0..MaxStock :
       Served /\ update_product(p, "stock", value)

\* the two cart requests that carry a quantity, over a stock that changes
SpecStock == Init /\ [][NextStock]_vars

\* a catalog stocked beyond the largest quantity of one request
InitQuantity ==
  /\ products = [p \in ProductIds |-> [InitialProduct(p) EXCEPT !.stock = 2 * le]]
  /\ carts = {}
  /\ cart_items = {}
  /\ next_cart_item_id = 1
  /\ orders = <<>>
  /\ order_items = <<>>
  /\ requests = 0
  /\ response = Reply("init", None, OK, "", None)
  /\ sessions = NoSessions

\* the quantities of the requests: the ends of the valid range and the values
\* next to them
Quantities == {0, 1, le, le + 1}

NextQuantity ==
  \/ \E u \in Users, p \in ProductIds, q \in Quantities :
       Served /\ add_item_to_cart(u, p, q)
  \/ \E u \in Users, i \in CartItemIds, q \in Quantities :
       Served /\ update_cart_item(u, i, q)

\* the two cart routes that carry a quantity, over a well stocked catalog
SpecQuantity == InitQuantity /\ [][NextQuantity]_vars

\* two users whose carts hold one line each, for the same product, and a
\* checkout request of each about to start
InitCheckout ==
  /\ products = [p \in ProductIds |-> InitialProduct(p)]
  /\ carts = {[id |-> u, user_id |-> u] : u \in Users}
  /\ \E quantity \in [Users -> 1..MaxStock] :
       cart_items = {[id |-> u, cart_id |-> u, product_id |-> 1,
                      quantity |-> quantity[u],
                      price_at_add |-> InitialProduct(1).price] : u \in Users}
  /\ next_cart_item_id = Cardinality(Users) + 1
  /\ orders = <<>>
  /\ order_items = <<>>
  /\ requests = 0
  /\ response = Reply("init", None, OK, "", None)
  /\ sessions = [s \in SessionIds |->
                   [Closed EXCEPT !.op = "create_order", !.user = s,
                                  !.pc = "start"]]

NextCheckout ==
  \/ \E s \in SessionIds : co_load(s)
  \/ \E s \in SessionIds : co_validate(s)
  \/ \E s \in SessionIds : co_order_items(s)
  \/ \E s \in SessionIds : co_clear_cart(s)
  \/ \E s \in SessionIds : co_return(s)

\* two checkouts by different users, interleaved at their reads and commits
SpecCheckout == InitCheckout /\ [][NextCheckout]_vars

\* the user whose requests run together
Shoppers == {1}

NextRace ==
  \/ \E s \in SessionIds, u \in Shoppers : gc_call(s, u)
  \/ \E s \in SessionIds, u \in Shoppers, p \in ProductIds,
        q \in 1..MaxStock :
       ai_product(s, u, p, q)
  \/ \E s \in SessionIds : gc_query(s)
  \/ \E s \in SessionIds : gc_insert(s)
  \/ \E s \in SessionIds : ai_existing(s)
  \/ \E s \in SessionIds : ai_write(s)
  \/ \E u \in Shoppers : Served /\ create_order(u)

\* the cart requests of one user, their statements interleaved across
\* sessions, and the checkouts of the cart they leave
SpecRace == Init /\ [][NextRace]_vars

\* the names a product can be given
Names == {"A", "B"}

NextImmutable ==
  \/ \E u \in Users, p \in ProductIds, q \in 1..MaxStock :
       Served /\ add_item(u, p, q)
  \/ \E u \in Users : Served /\ clear_cart(u)
  \/ \E u \in Users : Served /\ create_order(u)
  \/ \E id \in OrderIds, new_status \in OrderStatus :
       Served /\ update_order_status(id, new_status)
  \/ \E p \in ProductIds, value \in Names :
       Served /\ update_product(p, "name", value)
  \/ \E p \in ProductIds, value \in Prices :
       Served /\ update_product(p, "price", value)
  \/ \E p \in ProductIds, value \in 0..MaxStock :
       Served /\ update_product(p, "stock", value)

\* checkouts, and what can follow them: status updates, cart requests, other
\* checkouts, and a catalog whose names, prices and stocks change
SpecImmutable == Init /\ [][NextImmutable]_vars

\* the pages a listing can ask for: limit (10 when omitted) and offset
Limits == {1, 10}
Offsets == {0, 1}

\* the tables after three checkouts of one unit of product 1, two by user 1
\* and one by user 2 in between, that have emptied its stock
InitOrders ==
  /\ orders = [i \in 1..3 |->
                 [user_id |-> IF i = 2 THEN 2 ELSE 1,
                  total_price |-> InitialProduct(1).price,
                  status |-> "pending"]]
  /\ order_items = [i \in 1..3 |->
                      [order_id |-> i, product_id |-> 1,
                       product_name |-> InitialProduct(1).name,
                       quantity |-> 1, price |-> InitialProduct(1).price]]
  /\ products = [p \in ProductIds |->
                   IF p = 1 THEN [InitialProduct(p) EXCEPT !.stock = 0]
                   ELSE InitialProduct(p)]
  /\ carts = {[id |-> u, user_id |-> u] : u \in {1, 2}}
  /\ cart_items = {}
  /\ next_cart_item_id = 4
  /\ requests = 0
  /\ response = Reply("init", None, OK, "", None)
  /\ sessions = NoSessions

NextOrders ==
  \/ \E id \in OrderIds, u \in Users : Served /\ get_order_by_id(id, u)
  \/ \E u \in Users, limit \in Limits, offset \in Offsets :
       Served /\ get_user_orders(u, limit, offset)
  \/ \E current_user \in Accounts, id \in OrderIds, new_status \in OrderStatus :
       Served /\ update_order_status_route(current_user, id, new_status)

\* the order routes, over the orders of two users
SpecOrders == InitOrders /\ [][NextOrders]_vars

\* ------------------------------------------------------------------ claims
\* the lines of the cart of user u
cart_lines(u) ==
  {i \in cart_items : \E c \in carts : c.user_id = u /\ i.cart_id = c.id}

\* the rows of order_items of one order
items_of_order(rows, id) == {k \in DOMAIN rows : rows[k].order_id = id}

RECURSIVE SumOver(_, _)
SumOver(f, S) ==
  IF S = {} THEN 0
  ELSE LET x == CHOOSE y \in S : TRUE IN f[x] + SumOver(f, S \ {x})

\* C1: whenever create_order fails at the re-validation of a cart line (an
\* inactive product or a stock below the line quantity), the orders, the order
\* items, the carts and their items and every product are as before the call.
C1_CheckoutAtomicity ==
  [][(/\ response'.op = "create_order"
      /\ response'.code = HTTP_400_BAD_REQUEST
      /\ response'.detail \in {"unavailable", "stock"})
     => /\ orders' = orders
        /\ order_items' = order_items
        /\ carts' = carts
        /\ cart_items' = cart_items
        /\ products' = products]_vars

\* a checkout of a two-line cart has just failed on one line while the other
\* line passes the re-validation
C1_Witness ==
  /\ response.op = "create_order"
  /\ response.code = HTTP_400_BAD_REQUEST
  /\ response.detail \in {"unavailable", "stock"}
  /\ \E l1, l2 \in cart_lines(response.user) :
       /\ ~ products[l1.product_id].is_active
              \/ products[l1.product_id].stock < l1.quantity
       /\ products[l2.product_id].is_active
       /\ products[l2.product_id].stock >= l2.quantity

\* C2: a successful create_order adds exactly one OrderItem per cart line, and
\* the OrderItem of a line carries the line's product, that product's name, the
\* line's quantity and its price_at_add.
C2_OneOrderItemPerLine ==
  [][(response'.op = "create_order" /\ response'.code = OK)
     => LET lines == cart_lines(response'.user)
            new == (DOMAIN order_items') \ (DOMAIN order_items)
        IN /\ Cardinality(new) = Cardinality(lines)
           /\ \A l \in lines :
                \E k \in new :
                  /\ order_items'[k].order_id = Len(orders')
                  /\ order_items'[k].product_id = l.product_id
                  /\ order_items'[k].product_name = products[l.product_id].name
                  /\ order_items'[k].quantity = l.quantity
                  /\ order_items'[k].price = l.price_at_add]_vars

\* C3: in every reachable state the total_price of every order is the sum of
\* price x quantity over its own OrderItems.
C3_TotalIsSumOfItems ==
  \A id \in DOMAIN orders :
    orders[id].total_price =
      SumOver([k \in DOMAIN order_items |->
                 order_items[k].price * order_items[k].quantity],
              items_of_order(order_items, id))

\* C4: after a successful create_order(user) the stock of the product of every
\* line of the user's cart is its stock before minus the line quantity, the
\* user's cart row still exists and has no items, and every other product and
\* the carts of the other users are as before.
C4_CheckoutSideEffects ==
  [][(response'.op = "create_order" /\ response'.code = OK)
     => LET u == response'.user
            lines == cart_lines(u)
        IN /\ \A l \in lines :
                products'[l.product_id] =
                  [products[l.product_id] EXCEPT !.stock = @ - l.quantity]
           /\ \A p \in ProductIds :
                (\A l \in lines : l.product_id # p) => products'[p] = products[p]
           /\ carts' = carts
           /\ \E c \in carts' : c.user_id = u
           /\ cart_items' = cart_items \ lines]_vars

\* a checkout has just succeeded, it took two units of a product, and the other
\* user's cart holds a line
C4_Witness ==
  /\ response.op = "create_order"
  /\ response.code = OK
  /\ cart_lines(response.user) = {}
  /\ \E k \in DOMAIN order_items :
       /\ order_items[k].order_id = Len(orders)
       /\ order_items[k].quantity = 2
  /\ \E u \in Users \ {response.user} : cart_lines(u) # {}

\* C5: create_order(user) succeeds only if the user has a cart with at least
\* one item and the product of every line is active with a stock of at least
\* the line quantity; without a cart or with an empty cart it fails with 400
\* "cart empty", and with an inactive product or a short stock it fails with
\* another 400, whatever the checks at add time said.
C5_CheckoutPrecondition ==
  [][response'.op = "create_order"
     => LET u == response'.user
            lines == cart_lines(u)
            fit == \A l \in lines :
                     /\ products[l.product_id].is_active
                     /\ products[l.product_id].stock >= l.quantity
        IN /\ response'.code = OK => (lines # {} /\ fit)
           /\ lines = {} => /\ response'.code = HTTP_400_BAD_REQUEST
                            /\ response'.detail = "cart_empty"
           /\ (lines # {} /\ ~ fit) => /\ response'.code = HTTP_400_BAD_REQUEST
                                       /\ response'.detail # "cart_empty"]_vars

\* a checkout has just been refused for a product that was deactivated after
\* it was added to the cart
C5_Witness ==
  /\ response.op = "create_order"
  /\ response.code = HTTP_400_BAD_REQUEST
  /\ response.detail = "unavailable"
  /\ \E l \in cart_lines(response.user) : ~ products[l.product_id].is_active

\* C6: every successful create_order(user) returns the order it created: the
\* newest order, owned by the user, pending, with the total of the cart.
C6_ReturnsCreatedOrder ==
  [][(response'.op = "create_order" /\ response'.code = OK)
     => LET lines == cart_lines(response'.user)
            ret == response'.ret
        IN /\ ret = Len(orders) + 1
           /\ orders'[ret].user_id = response'.user
           /\ orders'[ret].status = "pending"
           /\ orders'[ret].total_price =
                SumOver([l \in lines |-> l.price_at_add * l.quantity], lines)]_vars

\* the transition table of the order status state machine
AllowedTransitions ==
  {<<"pending", "paid">>, <<"pending", "cancelled">>, <<"paid", "shipped">>,
   <<"paid", "cancelled">>, <<"shipped", "delivered">>}

\* C7: over the 25 ordered pairs of statuses, _validade_status_transition is
\* true exactly on the five pairs of the transition table (the orders of the
\* states of SpecStatus are in each of the five statuses).
C7_TransitionTable ==
  \A id \in DOMAIN orders, requested \in OrderStatus :
    _validade_status_transition(orders[id].status, requested)
      <=> <<orders[id].status, requested>> \in AllowedTransitions

\* the validator has just refused a request on an order that is in no terminal
\* status (every order is PAID or SHIPPED)
C7_Witness ==
  /\ response.op = "update_order_status"
  /\ response.code = HTTP_400_BAD_REQUEST
  /\ \A id \in DOMAIN orders : orders[id].status \in {"paid", "shipped"}

\* C8: once an order is DELIVERED or CANCELLED, every update_order_status on
\* it, for any of the five statuses, fails with the invalid-transition error
\* and no step changes its status again.
C8_TerminalLockout ==
  [][\A id \in DOMAIN orders :
       orders[id].status \in {"delivered", "cancelled"}
       => /\ orders'[id].status = orders[id].status
          /\ \A s \in OrderStatus :
               update_order_status(id, s)
               => /\ response'.code = HTTP_400_BAD_REQUEST
                  /\ response'.detail = "transition"]_vars

\* an update has just been refused while every order is in a terminal status
C8_Witness ==
  /\ response.op = "update_order_status"
  /\ response.code = HTTP_400_BAD_REQUEST
  /\ orders # <<>>
  /\ \A id \in DOMAIN orders : orders[id].status \in {"delivered", "cancelled"}

\* C9: update_order_status(order_id, new_status) fails with 404 when the order
\* does not exist, fails with the invalid-transition 400 and changes no order
\* when the pair is not allowed, and otherwise sets the status of that order
\* to new_status and changes no other order.
C9_UpdateOrderStatus ==
  [][\A id \in OrderIds, s \in OrderStatus :
       update_order_status(id, s)
       => IF id \notin DOMAIN orders
            THEN response'.code = HTTP_404_NOT_FOUND /\ orders' = orders
          ELSE IF <<orders[id].status, s>> \notin AllowedTransitions
            THEN /\ response'.code = HTTP_400_BAD_REQUEST
                 /\ response'.detail = "transition"
                 /\ orders' = orders
          ELSE /\ response'.code = OK
               /\ orders' = [orders EXCEPT ![id].status = s]
               /\ order_items' = order_items]_vars

\* an update has just moved one order to SHIPPED while the other order is
\* still PENDING
C9_Witness ==
  /\ response.op = "update_order_status"
  /\ response.code = OK
  /\ orders[response.ret].status = "shipped"
  /\ \E id \in DOMAIN orders : id # response.ret /\ orders[id].status = "pending"

\* no cart holds two lines for one product
UniqueLines ==
  \A i, j \in cart_items :
    (i.cart_id = j.cart_id /\ i.product_id = j.product_id) => i = j

\* C10: every cart holds at most one CartItem per product, and add_item of q
\* units of a product already in the cart raises the quantity of the existing
\* line from e to e + q and creates no row.
C10_Aggregation ==
  /\ []UniqueLines
  /\ [][\A u \in Users, p \in ProductIds, q \in 1..MaxStock :
          (/\ response'.op = "add_item"
           /\ response'.user = u
           /\ response'.code = OK
           /\ add_item(u, p, q))
          => \A l \in cart_lines(u) :
               l.product_id = p
               => /\ cart_items' =
                       (cart_items \ {l}) \cup {[l EXCEPT !.quantity = @ + q]}
                  /\ response'.ret = l.id
                  /\ next_cart_item_id' = next_cart_item_id]_vars

\* add_item has just returned a line that is older than another line of the
\* same cart: it has aggregated
C10_Witness ==
  /\ response.op = "add_item"
  /\ response.code = OK
  /\ \E l, m \in cart_lines(response.user) :
       l.id = response.ret /\ m.id > l.id /\ l.quantity = 2

\* C11: the price_at_add of a new CartItem is the price of its product at that
\* moment, and no step changes the price_at_add of a CartItem that exists: not
\* an add_item on its product, not update_item_quantity, not a change of the
\* price of the product.
C11_PriceFreeze ==
  [][/\ \A l \in cart_items, m \in cart_items' :
          m.id = l.id => m.price_at_add = l.price_at_add
     /\ \A m \in cart_items' :
          (\A l \in cart_items : l.id # m.id)
          => m.price_at_add = products[m.product_id].price]_vars

\* add_item has just raised the quantity of a line whose product has changed
\* its price since the line was created
C11_Witness ==
  /\ response.op = "add_item"
  /\ response.code = OK
  /\ \E l \in cart_items :
       /\ l.id = response.ret
       /\ l.quantity >= 2
       /\ l.price_at_add # products[l.product_id].price

\* C12: add_item of q units of an active product succeeds exactly when the
\* stock of the product is at least the resulting quantity of the line (q for a
\* new line, existing + q for a line the cart already has), and
\* update_item_quantity of an own line to q succeeds exactly when the stock is
\* at least q; otherwise the call fails with 400 and no line changes.
C12_StockCheck ==
  [][/\ \A u \in Users, p \in ProductIds, q \in 1..MaxStock :
          (/\ response'.op = "add_item"
           /\ response'.user = u
           /\ active_product(p)
           /\ add_item(u, p, q))
          => LET lines == {l \in cart_lines(u) : l.product_id = p}
                 resulting == q + SumOver([l \in lines |-> l.quantity], lines)
             IN IF products[p].stock >= resulting
                  THEN /\ response'.code = OK
                       /\ \E m \in cart_items' :
                            m.id = response'.ret /\ m.quantity = resulting
                  ELSE /\ response'.code = HTTP_400_BAD_REQUEST
                       /\ cart_items' = cart_items
     /\ \A u \in Users, i \in CartItemIds, q \in 1..MaxStock :
          (/\ response'.op = "update_item_quantity"
           /\ response'.user = u
           /\ update_item_quantity(u, i, q))
          => \A l \in cart_lines(u) :
               l.id = i
               => IF products[l.product_id].stock >= q
                    THEN /\ response'.code = OK
                         /\ cart_items' =
                              (cart_items \ {l}) \cup {[l EXCEPT !.quantity = q]}
                    ELSE /\ response'.code = HTTP_400_BAD_REQUEST
                         /\ cart_items' = cart_items]_vars

\* add_item has just been refused for the sum: every product is fully stocked,
\* so the requested quantity alone passed the first test
C12_Witness ==
  /\ response.op = "add_item"
  /\ response.code = HTTP_400_BAD_REQUEST
  /\ \A p \in ProductIds : products[p].stock = MaxStock
  /\ cart_lines(response.user) # {}

\* C13: in every reachable state every CartItem has a quantity of 1 to 100,
\* when each add_item and update_item_quantity request carries a quantity of 1
\* to 100 (the others are rejected) and the stock can be larger than 100.
C13_QuantityRange == \A i \in cart_items : 1 <= i.quantity /\ i.quantity <= le

\* C14: add_item for a product that does not exist or is inactive fails with
\* 404 and leaves every table as it was: no CartItem is created or changed and
\* no cart is created for a user who had none.
C14_AddItemNotFound ==
  [][\A u \in Users, p \in RequestedProductIds, q \in 1..MaxStock :
       (/\ response'.op = "add_item"
        /\ response'.user = u
        /\ p \notin ProductIds \/ ~ products[p].is_active
        /\ add_item(u, p, q))
       => /\ response'.code = HTTP_404_NOT_FOUND
          /\ carts' = carts
          /\ cart_items' = cart_items
          /\ next_cart_item_id' = next_cart_item_id
          /\ products' = products]_vars

\* add_item has just answered 404 to a user who has no cart, while the other
\* user has one
C14_Witness ==
  /\ response.op = "add_item"
  /\ response.code = HTTP_404_NOT_FOUND
  /\ \A c \in carts : c.user_id # response.user
  /\ carts # {}

\* C15: update_item_quantity and remove_item by user u on an item id that is
\* in the cart of another user answer what they answer for an id that does not
\* exist, a 404 with no row, and change no table; no update_item_quantity or
\* remove_item of u changes or deletes a line of another user's cart.
C15_OwnershipAsExistence ==
  [][\A u \in Users :
       (/\ response'.op \in {"update_item_quantity", "remove_item"}
        /\ response'.user = u)
       => /\ \A l \in cart_items \ cart_lines(u) : l \in cart_items'
          /\ \A i \in CartItemIds :
               (\A l \in cart_lines(u) : l.id # i)
               => /\ \A q \in 1..MaxStock :
                       update_item_quantity(u, i, q)
                       => /\ response' = Reply("update_item_quantity", u,
                                               HTTP_404_NOT_FOUND, "item", None)
                          /\ UNCHANGED db
                  /\ remove_item(u, i)
                     => /\ response' = Reply("remove_item", u,
                                             HTTP_404_NOT_FOUND, "item", None)
                        /\ UNCHANGED db]_vars

\* remove_item has just answered 404 to a user whose cart is empty while the
\* cart of the other user holds line 1, the only id handed out so far
C15_Witness ==
  /\ response.op = "remove_item"
  /\ response.code = HTTP_404_NOT_FOUND
  /\ cart_lines(response.user) = {}
  /\ next_cart_item_id = 2
  /\ \E l \in cart_items : l.id = 1

\* no user has two carts and no two carts have one id
OneCartPerUser ==
  \A c, d \in carts : (c.user_id = d.user_id \/ c.id = d.id) => c = d

\* C16: under sequential requests every user has at most one cart;
\* and no cart row is ever removed or changed; get_or_create_cart returns the
\* cart the user already has, creating none, and the cart it returns belongs to
\* the calling user alone.
C16_GetOrCreateIdempotent ==
  /\ []OneCartPerUser
  /\ [][\A c \in carts : c \in carts']_vars
  /\ [][\A u \in Users :
          (/\ response'.op = "get_or_create_cart"
           /\ response'.user = u)
          => /\ response'.code = OK
             /\ \A c \in carts :
                  c.user_id = u => (response'.ret = c.id /\ carts' = carts)
             /\ \A c \in carts' : c.id = response'.ret => c.user_id = u
             /\ \E c \in carts' : c.id = response'.ret]_vars

\* get_or_create_cart has just returned a cart that already held a line, while
\* the other user has a cart too
C16_Witness ==
  /\ response.op = "get_or_create_cart"
  /\ \E l \in cart_lines(response.user) : l.cart_id = response.ret
  /\ \E c \in carts : c.user_id # response.user

\* C17: clear_cart(user) deletes the CartItems of the user's cart and nothing
\* else: the cart rows, the items of the other carts, the products, the orders
\* and their items are as before; for a user without a cart nothing changes,
\* no cart is created and no error is raised.
C17_ClearCartFrame ==
  [][\A u \in Users :
       (response'.op = "clear_cart" /\ response'.user = u)
       => /\ response'.code = OK
          /\ cart_items' = cart_items \ cart_lines(u)
          /\ carts' = carts
          /\ products' = products
          /\ orders' = orders
          /\ order_items' = order_items
          /\ next_cart_item_id' = next_cart_item_id]_vars

\* the third request was a clear_cart: of the two lines created before it, the
\* line of the caller is gone and the line of the other user is still there
C17_Witness ==
  /\ response.op = "clear_cart"
  /\ requests = 3
  /\ next_cart_item_id = 3
  /\ \E c \in carts : c.user_id = response.user
  /\ cart_lines(response.user) = {}
  /\ Cardinality(cart_items) = 1

\* C18: calculate_totals returns the sum of the quantities of the items of the
\* cart and the sum of quantity x price_at_add over them, and (0, 0) for an
\* absent cart and for a cart without items.
C18_CalculateTotals ==
  [][\A u \in Users :
       (response'.op = "calculate_totals" /\ response'.user = u)
       => LET lines == cart_lines(u)
          IN /\ response'.ret =
                  <<SumOver([l \in lines |-> l.quantity], lines),
                    SumOver([l \in lines |-> l.quantity * l.price_at_add], lines)>>
             /\ lines = {} => response'.ret = <<0, 0>>]_vars

\* the totals of a cart of two lines have just been computed, one of the lines
\* holding a price that is no longer the price of the catalog
C18_Witness ==
  /\ response.op = "calculate_totals"
  /\ response.ret[1] >= 2
  /\ Cardinality(cart_lines(response.user)) = 2
  /\ \E l \in cart_lines(response.user) :
       l.price_at_add # products[l.product_id].price

\* C19: get_order_by_id(order_id, user) returns the order when it exists and
\* belongs to user and None otherwise, for an order of another user as for an
\* id that does not exist; get_user_orders(user) lists orders of user only;
\* neither changes a table.
C19_OwnerScopedReads ==
  [][\A u \in Users :
       /\ (response'.op = "get_order_by_id" /\ response'.user = u)
          => /\ \A id \in OrderIds :
                  get_order_by_id(id, u)
                  => response'.ret =
                       IF id \in DOMAIN orders /\ orders[id].user_id = u
                         THEN id ELSE None
             /\ UNCHANGED db
       /\ (response'.op = "get_user_orders" /\ response'.user = u)
          => /\ \A k \in DOMAIN response'.ret :
                  /\ response'.ret[k] \in DOMAIN orders
                  /\ orders[response'.ret[k]].user_id = u
             /\ UNCHANGED db]_vars

\* get_order_by_id has just returned None to a user who owns an order, while
\* the two other orders belong to another user
C19_Witness ==
  /\ response.op = "get_order_by_id"
  /\ response.ret = None
  /\ \E id \in DOMAIN orders : orders[id].user_id = response.user
  /\ Cardinality({id \in DOMAIN orders : orders[id].user_id # response.user}) = 2

\* C20: a status-update request made by an account that is not an
\* administrator is rejected with 403 and leaves the orders as they were.
C20_AdminOnlyStatusUpdate ==
  [][\A current_user \in Accounts, id \in OrderIds, new_status \in OrderStatus :
       (/\ response'.op = "update_order_status"
        /\ ~ is_superuser(current_user)
        /\ update_order_status_route(current_user, id, new_status))
       => /\ response'.code = HTTP_403_FORBIDDEN
          /\ orders' = orders]_vars

\* the units of product p in the items of the committed orders
sold(p) ==
  LET rows == {k \in DOMAIN order_items : order_items[k].product_id = p}
  IN SumOver([k \in rows |-> order_items[k].quantity], rows)

\* C21: when the checkouts of two users whose carts hold the same product run
\* interleaved, each in its own session, the units of the product in the
\* committed orders never exceed the stock the product had before the
\* checkouts, and once both have ended the stock is that stock minus those
\* units.
C21_NoOversell ==
  \A p \in ProductIds :
    /\ sold(p) <= InitialProduct(p).stock
    /\ (\A s \in SessionIds : sessions[s].pc = "closed")
       => products[p].stock = InitialProduct(p).stock - sold(p)

\* C22: the writes of a checkout become visible to the other sessions in one
\* step. Every step that changes a table is the commit of one session and
\* makes visible, together, one new order of the session's user, one order
\* item for each line of the cart the session loaded, the stock the session
\* computed for each product of those lines, and the user's cart without
\* lines; a request that ends in an error changes no table; and in every
\* committed state a user has an order exactly when that order has items and
\* the user's cart has no lines.
C22_AtomicVisibility ==
  [][ /\ (response'.code # OK /\ response' # response) => UNCHANGED db
      /\ db' # db =>
           \E s \in SessionIds :
             LET sess == sessions[s]
                 order_id == Len(orders')
             IN /\ Len(orders') = Len(orders) + 1
                /\ orders'[order_id].user_id = sess.user
                /\ Cardinality(items_of_order(order_items', order_id))
                     = Len(sess.items)
                /\ Len(order_items') = Len(order_items) + Len(sess.items)
                /\ \A k \in DOMAIN sess.items :
                     LET cart_item == sess.items[k]
                     IN products'[cart_item.product_id].stock
                          = sess.prods[cart_item.product_id].stock
                /\ cart_lines(sess.user)' = {}
      /\ \A u \in Users :
           LET mine == {k \in DOMAIN orders' : orders'[k].user_id = u}
           IN /\ (mine # {}) <=> (cart_lines(u)' = {})
              /\ \A k \in mine : items_of_order(order_items', k) # {}
      /\ \A k \in DOMAIN order_items' :
           order_items'[k].order_id \in DOMAIN orders'
    ]_vars

\* one checkout has committed while the session of another is still between
\* its cart query and its commit
C22_Witness ==
  /\ orders # <<>>
  /\ \E s \in SessionIds :
       /\ sessions[s].pc \in {"loaded", "flushed", "decremented"}
       /\ cart_lines(sessions[s].user) # {}

\* C23: however two get_or_create_cart or add_item calls of a user without a
\* cart interleave, the carts table never holds two carts of one user, and a
\* call that reaches its INSERT when the user has a cart ends in the error of
\* the unique constraint and creates no cart.
C23_NoDuplicateCart ==
  [][ /\ \A c1, c2 \in carts' : c1.user_id = c2.user_id => c1 = c2
      /\ \A s \in SessionIds :
           (/\ sessions[s].pc = "no_cart"
            /\ sessions'[s].pc # "no_cart"
            /\ \E c \in carts : c.user_id = sessions[s].user)
           => /\ response' = Reply(sessions[s].op, sessions[s].user,
                                   HTTP_500_INTERNAL_SERVER_ERROR, "integrity",
                                   None)
              /\ sessions'[s] = Closed
              /\ carts' = carts
    ]_vars

\* two calls of one user have both found no cart; the first has inserted one
\* and the second has ended in the error of the constraint
C23_Witness ==
  /\ response.detail = "integrity"
  /\ \E c \in carts : c.user_id = response.user
  /\ \A s \in SessionIds : sessions[s].pc = "closed"

\* C24: however two add_item calls of one user for one product interleave,
\* the cart holds at most one line for the product.
C24_OneLinePerProduct ==
  \A i, j \in cart_items :
    (i.cart_id = j.cart_id /\ i.product_id = j.product_id) => i = j

\* C25: no create_order whose validation passed for every line ends in the
\* 500 of the negative-stock branch, and no product has a negative stock.
C25_NegativeStockUnreachable ==
  /\ ~ (/\ response.op = "create_order"
        /\ response.code = HTTP_500_INTERNAL_SERVER_ERROR)
  /\ \A p \in ProductIds : products[p].stock >= 0

\* the requests of the cart and of the order status, and the checkouts that fail
writes_no_stock(r) ==
  \/ r.op \in {"add_item", "update_item_quantity", "remove_item", "clear_cart",
               "get_or_create_cart", "update_order_status"}
  \/ r.op = "create_order" /\ r.code # OK

\* C26: add_item, update_item_quantity, remove_item, clear_cart,
\* get_or_create_cart, a create_order that fails and update_order_status (a
\* transition to CANCELLED included) leave the stock of every product as it
\* was; apart from the catalog's own update, a step that changes a stock is a
\* create_order that succeeds.
C26_StockWrittenByCheckoutOnly ==
  [][ /\ writes_no_stock(response') =>
           \A p \in ProductIds : products'[p].stock = products[p].stock
      /\ (\E p \in ProductIds : products'[p].stock # products[p].stock) =>
           \/ response'.op = "create_order" /\ response'.code = OK
           \/ response'.op = "update_product"
    ]_vars

\* an order has been created, which took units from the stock, and then
\* cancelled: the units are still out of the stock
C26_Witness ==
  /\ response.op = "update_order_status"
  /\ response.code = OK
  /\ \E k \in DOMAIN orders :
       /\ orders[k].status = "cancelled"
       /\ \E i \in DOMAIN order_items :
            /\ order_items[i].order_id = k
            /\ products[order_items[i].product_id].stock
                 = InitialProduct(order_items[i].product_id).stock
                     - order_items[i].quantity

\* C27: once an order is created, no later request (status updates, cart
\* requests, other checkouts, changes of the name, price or stock of a product)
\* changes its owner or its total_price, changes the product name, the
\* quantity or the price of one of its items, or adds an item to it or removes
\* one from it: only its status changes.
C27_OrderImmutable ==
  [][ /\ Len(orders') >= Len(orders)
      /\ \A k \in DOMAIN orders :
           /\ orders'[k].user_id = orders[k].user_id
           /\ orders'[k].total_price = orders[k].total_price
           /\ items_of_order(order_items', k) = items_of_order(order_items, k)
      /\ Len(order_items') >= Len(order_items)
      /\ \A i \in DOMAIN order_items : order_items'[i] = order_items[i]
    ]_vars

\* an order whose status has been updated holds an item under the name the
\* product had at the checkout, which the catalog has changed since
C27_Witness ==
  \E i \in DOMAIN order_items :
    /\ orders[order_items[i].order_id].status # "pending"
    /\ products[order_items[i].product_id].name # order_items[i].product_name

\* C28: a create_order that succeeds computes the total_price of the order
\* from the price_at_add and the quantity of the lines of the cart, and gives
\* every item of the order the price_at_add of a line of its product, whatever
\* the price of the product in the catalog is at checkout time.
C28_CheckoutHonoursSnapshot ==
  [][(response'.op = "create_order" /\ response'.code = OK)
     => LET lines == cart_lines(response'.user)
            order_id == Len(orders')
        IN /\ Len(orders') = Len(orders) + 1
           /\ orders'[order_id].total_price =
                SumOver([l \in lines |-> l.price_at_add * l.quantity], lines)
           /\ \A k \in items_of_order(order_items', order_id) :
                \E l \in lines :
                  /\ l.product_id = order_items'[k].product_id
                  /\ l.price_at_add = order_items'[k].price]_vars

\* a checkout has just succeeded on a product whose price in the catalog is no
\* longer the price of the line: the order holds the price of the line
C28_Witness ==
  /\ response.op = "create_order"
  /\ response.code = OK
  /\ \E k \in items_of_order(order_items, Len(orders)) :
       /\ order_items[k].price # products[order_items[k].product_id].price
       /\ orders[Len(orders)].total_price
            = order_items[k].price * order_items[k].quantity

\* C29: a create_order of a user that succeeds leaves the user's cart without
\* lines; the cart stays without lines until an add_item of that user
\* succeeds; and a create_order of a user whose cart has no lines fails with
\* the 400 of the empty cart and creates no order and no order item. So a
\* second create_order with no add_item in between creates nothing.
C29_NoDoubleOrder ==
  [][\A u \in Users :
       /\ (response'.op = "create_order" /\ response'.user = u
             /\ response'.code = OK)
          => cart_lines(u)' = {}
       /\ (cart_lines(u) = {} /\ cart_lines(u)' # {})
          => (response'.op = "add_item" /\ response'.user = u
                /\ response'.code = OK)
       /\ (response'.op = "create_order" /\ response'.user = u
             /\ cart_lines(u) = {})
          => /\ response'.code = HTTP_400_BAD_REQUEST
             /\ response'.detail = "cart_empty"
             /\ orders' = orders
             /\ order_items' = order_items]_vars

\* a user whose cart became an order has asked for a checkout again, with no
\* add_item since: the request was refused and the user still has one order
C29_Witness ==
  /\ response.op = "create_order"
  /\ response.code = HTTP_400_BAD_REQUEST
  /\ response.detail = "cart_empty"
  /\ Cardinality({k \in DOMAIN orders : orders[k].user_id = response.user}) = 1
  /\ \E c \in carts : c.user_id = response.user

\* how far a status is along the paths PENDING-PAID-SHIPPED-DELIVERED,
\* PENDING-CANCELLED and PENDING-PAID-CANCELLED
progress(status) ==
  CASE status = "pending" -> 0
    [] status = "paid" -> 1
    [] status = "shipped" -> 2
    [] status \in {"delivered", "cancelled"} -> 3

\* C30: every order starts PENDING, and every change of the status of an
\* order is made by an update_order_status that succeeds, takes the order
\* further along its path (so the order never returns to PENDING nor to a
\* status it has held, and changes status at most 3 times), leaves DELIVERED
\* and CANCELLED as they are and never takes a SHIPPED order to CANCELLED.
C30_StatusHistory ==
  [][\A id \in DOMAIN orders' :
       IF id \notin DOMAIN orders THEN orders'[id].status = "pending"
       ELSE orders'[id].status # orders[id].status
            => /\ response'.op = "update_order_status"
               /\ response'.code = OK
               /\ progress(orders'[id].status) > progress(orders[id].status)
               /\ progress(orders[id].status) < 3
               /\ orders'[id].status # "pending"
               /\ <<orders[id].status, orders'[id].status>>
                    # <<"shipped", "cancelled">>]_vars

\* of three orders that were PENDING, one has gone the whole path to
\* DELIVERED, in three updates
C30_Witness ==
  /\ requests = 3
  /\ response.op = "update_order_status"
  /\ response.code = OK
  /\ orders[response.ret].status = "delivered"

====
